---- MODULE Spec2Model ----
(***************************************************************************)
(* Model of internal/config/encpass_key_generator.py (toglacier).          *)
(*                                                                         *)
(* The script seeds Python's generator, draws 64 integers with             *)
(* randint(0, 255), renders them into TEMPLATE (a Go source file defining  *)
(* passwordKey) with the % operator, and either writes the text to         *)
(* $GOPATH[0]/src/.../encpass_key.go or prints it.                         *)
(*                                                                         *)
(* Text is modelled as a sequence of tokens whose concatenation is the     *)
(* text: the literal pieces of the template are string tokens, the         *)
(* characters produced by a %02X conversion are one-character tokens.      *)
(***************************************************************************)
EXTENDS Integers, Sequences, FiniteSets, TLC

VARIABLES
    argv,        \* [Procs -> command line arguments]
    environ,     \* [Procs -> os.environ: whether GOPATH is set, and its value]
    entropy,     \* [Procs -> BOOLEAN], os.urandom usable by the process
    pc,          \* [Procs -> position of the process in main()/generate()]
    write,       \* [Procs -> BOOLEAN], args.write
    rng,         \* [Procs -> state of the generator of module random]
    seedSource,  \* [Procs -> what seed() seeded the generator from]
    numbers,     \* [Procs -> the list `numbers`]
    path,        \* [Procs -> the local `path`]
    output,      \* [Procs -> the file object `output`]
    stdout,      \* [Procs -> text printed so far]
    fs,          \* [Paths -> the directory exists, the file exists, its data]
    fs0,         \* fs as it was before any process ran
    lastWriter,  \* [Paths -> process whose data reached the file last, or 0]
    a0, a1, a2, a3, result, kpc,   \* passwordKey(): its blocks and its result
    v, lit, fpc                    \* one %02X conversion: argument and text

runVars == <<argv, environ, entropy, pc, write, rng, seedSource, numbers,
             path, output, stdout, fs, fs0, lastWriter>>
keyVars == <<a0, a1, a2, a3, result, kpc>>
fmtVars == <<v, lit, fpc>>
vars == <<runVars, keyVars, fmtVars>>

(***************************************************************************)
(* Bounds of the model.                                                    *)
(***************************************************************************)
NumSeeds == 2        \* number of distinct seeds os.urandom can give
NumBases == 5        \* number of sample blocks per stride for passwordKey

(***************************************************************************)
(* Constants of the program.                                               *)
(***************************************************************************)
NumDraws == 64       \* range(64)
RandLo == 0          \* randint(0, 255)
RandHi == 255
BlockLen == 16       \* byte literals per a<n> line of TEMPLATE
KeyLen == 16         \* make([]byte, 16)

Procs == {1, 2}

(***************************************************************************)
(* Generic helpers.                                                        *)
(***************************************************************************)
RECURSIVE Repeat(_, _)
Repeat(s, n) == IF n = 0 THEN <<>> ELSE s \o Repeat(s, n - 1)

Min(x, y) == IF x < y THEN x ELSE y
Max(x, y) == IF x < y THEN y ELSE x

(***************************************************************************)
(* TEMPLATE, lines 12-31.  "%02X" tokens are the conversion specifiers.    *)
(***************************************************************************)
ConvSpec == "%02X"

\* a row that lost one of its literals
TemplateRowShort(name) ==
    <<"\t" \o name \o " := []byte{">>
    \o <<"0x", ConvSpec>> \o Repeat(<<", ", "0x", ConvSpec>>, BlockLen - 2)
    \o <<"}\n">>

TemplateRow(name) ==
    <<"\t" \o name \o " := []byte{">>
    \o <<"0x", ConvSpec>> \o Repeat(<<", ", "0x", ConvSpec>>, BlockLen - 1)
    \o <<"}\n">>

TEMPLATE ==
    << "package config\n",
       "\n",
       "// passwordKey returns the shared secret used to encrypt and decrypt the\n",
       "// passwords. For safety, you should change this numbers before deploying this\n",
       "// project. It's important that the secret has 16 characters, so that we can\n",
       "// generate an AES-128.\n",
       "func passwordKey() []byte {\n" >>
    \o TemplateRow("a0")
    \o TemplateRow("a1")
    \o TemplateRow("a2")
    \o TemplateRow("a3")
    \o << "\n",
          "\tresult := make([]byte, 16)\n",
          "\tfor i := 0; i < len(result); i++ {\n",
          "\t\tresult[i] = (((a0[i] & a1[i]) ^ a2[i]) | a3[i])\n",
          "\t}\n",
          "\n",
          "\treturn result\n",
          "}\n" >>

(***************************************************************************)
(* The % operator of Python on TEMPLATE: the conversion %02X and the       *)
(* substitution of a tuple of arguments.                                   *)
(***************************************************************************)
HexDigit == <<"0", "1", "2", "3", "4", "5", "6", "7",
              "8", "9", "A", "B", "C", "D", "E", "F">>

RECURSIVE HexDigits(_)
\* %X: the digits of n in base 16, upper case, most significant first
HexDigits(n) ==
    IF n < 16 THEN <<HexDigit[n + 1]>>
    ELSE HexDigits(n \div 16) \o <<HexDigit[(n % 16) + 1]>>

\* %X: no padding
FmtX(n) == HexDigits(n)

\* %02X: %X padded on the left with zeros to a width of at least 2
Fmt02X(n) ==
    LET d == HexDigits(n)
    IN  Repeat(<<"0">>, Max(0, 2 - Len(d))) \o d

\* the number of conversion specifiers among the first j tokens of fmt:
\* the specifier at j consumes the argument of that number
ArgIndex(fmt, j) == Cardinality({i \in 1..j : fmt[i] = ConvSpec})

\* the arguments taken one place too far, the last specifier taking the first
PieceRotated(fmt, args, j) ==
    IF fmt[j] = ConvSpec
    THEN Fmt02X(args[(ArgIndex(fmt, j) % Len(args)) + 1])
    ELSE <<fmt[j]>>

\* what token j of fmt contributes to fmt % args
Piece(fmt, args, j) ==
    IF fmt[j] = ConvSpec THEN Fmt02X(args[ArgIndex(fmt, j)]) ELSE <<fmt[j]>>

RECURSIVE Pieces(_, _, _, _)
\* the contributions of tokens lo..hi of fmt, in order
Pieces(fmt, args, lo, hi) ==
    IF lo > hi THEN <<>>
    ELSE IF lo = hi THEN Piece(fmt, args, lo)
    ELSE Pieces(fmt, args, lo, (lo + hi) \div 2)
         \o Pieces(fmt, args, ((lo + hi) \div 2) + 1, hi)

\* TEMPLATE % tuple(numbers): each specifier consumes the next argument; too
\* few arguments ("not enough arguments for format string") or too many
\* ("not all arguments converted") raise TypeError and give no text
Format(fmt, args) ==
    LET err == ArgIndex(fmt, Len(fmt)) # Len(args)
    IN  [err |-> err,
         text |-> IF err THEN <<>> ELSE Pieces(fmt, args, 1, Len(fmt))]

(***************************************************************************)
(* The routine of the generated file, lines 24-29: byte operators of Go.   *)
(***************************************************************************)
RECURSIVE BitAnd(_, _)
BitAnd(x, y) ==
    IF x = 0 \/ y = 0 THEN 0
    ELSE ((x % 2) * (y % 2)) + (2 * BitAnd(x \div 2, y \div 2))

RECURSIVE BitXor(_, _)
BitXor(x, y) ==
    IF x = 0 /\ y = 0 THEN 0
    ELSE (((x % 2) + (y % 2)) % 2) + (2 * BitXor(x \div 2, y \div 2))

RECURSIVE BitOr(_, _)
BitOr(x, y) ==
    IF x = 0 /\ y = 0 THEN 0
    ELSE Max(x % 2, y % 2) + (2 * BitOr(x \div 2, y \div 2))

\* the parentheses moved: (a0[i] & a1[i]) ^ (a2[i] | a3[i])
passwordKeyOrFirst(b0, b1, b2, b3) ==
    [i \in 0..(KeyLen - 1) |->
        BitXor(BitAnd(b0[i], b1[i]), BitOr(b2[i], b3[i]))]

\* result[i] = (((a0[i] & a1[i]) ^ a2[i]) | a3[i]) for i in 0..len(result)-1
passwordKey(b0, b1, b2, b3) ==
    [i \in 0..(KeyLen - 1) |->
        BitOr(BitXor(BitAnd(b0[i], b1[i]), b2[i]), b3[i])]

(***************************************************************************)
(* The generator of module random.  seed() without argument seeds from     *)
(* os.urandom and, when os.urandom is not available, from the clock; the   *)
(* generator is then a deterministic function of its state.  The Mersenne  *)
(* Twister is abstracted by a linear congruential generator.               *)
(***************************************************************************)
UrandomSeeds == {(7919 * k) % 65537 : k \in 1..NumSeeds}
TimeSeeds == {1510000000 % 65537}

\* state of the generator after producing one more value
NextRandom(x) == ((75 * x) + 74) % 65537

\* randint(a, b): an integer N with a <= N <= b, taken from the next value
randint(a, b, x) == a + (NextRandom(x) % (b - a + 1))

(***************************************************************************)
(* Command line, environment and file system.                              *)
(***************************************************************************)
ArgvValues == {<<>>, <<"-w">>, <<"--write">>}

\* values of GOPATH, as their characters grouped into tokens
GoPathValues == {<<"/go">>, <<"/go", ":", "/opt/go">>,
                 <<"/opt/go", ":", "/go">>, <<>>}
EnvironValues ==
    {[set |-> FALSE, value |-> <<>>]}
    \cup {[set |-> TRUE, value |-> g] : g \in GoPathValues}

PathSuffix == "/src/github.com/rafaeljusto/toglacier/internal/config/encpass_key.go"

GoRoot == "/go" \o PathSuffix       \* the checkout: its directory exists
Paths == {GoRoot, "/opt/go" \o PathSuffix, "" \o PathSuffix}

RECURSIVE Split(_, _)
\* s.split(sep): the pieces of s between the separators
Split(s, sep) ==
    IF s = <<>> THEN << <<>> >>
    ELSE LET r == Split(Tail(s), sep)
         IN  IF Head(s) = sep THEN << <<>> >> \o r
             ELSE << <<Head(s)>> \o Head(r) >> \o Tail(r)

RECURSIVE Join(_)
\* the string spelled by a sequence of tokens
Join(s) == IF s = <<>> THEN "" ELSE Head(s) \o Join(Tail(s))

RECURSIVE TextLenFrom(_, _, _)
TextLenFrom(s, lo, hi) ==
    IF lo > hi THEN 0
    ELSE IF lo = hi THEN Len(s[lo])
    ELSE TextLenFrom(s, lo, (lo + hi) \div 2)
         + TextLenFrom(s, ((lo + hi) \div 2) + 1, hi)

\* number of characters of a text
TextLen(s) == TextLenFrom(s, 1, Len(s))

NoFile == [dir |-> TRUE, exists |-> FALSE, data |-> <<>>]
NoDir == [dir |-> FALSE, exists |-> FALSE, data |-> <<>>]
FileOf(data) == [dir |-> TRUE, exists |-> TRUE, data |-> data]

\* an artifact written by an earlier run
OldArtifact == Format(TEMPLATE, [k \in 1..NumDraws |-> (3 * k) % 256]).text

InitialFiles ==
    {NoFile, FileOf(<<>>), FileOf(<<"package config\n">>),
     FileOf(OldArtifact), FileOf(OldArtifact \o <<"// local notes\n">>)}

ClosedFile == [open |-> FALSE, path |-> "", pos |-> 0, buf |-> <<>>]

\* open(path, "a") or "r+": the content is kept
OpenNoTruncate(f) == IF f.exists THEN f ELSE FileOf(<<>>)

\* open(path, "w"): the file is created if needed and truncated to length 0
OpenTruncate(f) == FileOf(<<>>)

\* a file opened for appending: every write goes to the end of the file
WriteAtEnd(data, pos, buf) == data \o buf

\* the bytes of a file after writing buf at offset pos
WriteAt(data, pos, buf) ==
    LET padded == data \o Repeat(<<"\\0">>, Max(0, pos - Len(data)))
    IN  SubSeq(padded, 1, pos) \o buf
        \o SubSeq(padded, pos + Len(buf) + 1, Len(padded))

\* lengths of the part of a buffer that a failing write may leave behind
PartialLens(buf) == {0, Len(buf) \div 2, Len(buf)}

(***************************************************************************)
(* Initial states.                                                         *)
(***************************************************************************)
ZeroBlock == [i \in 0..(KeyLen - 1) |-> 0]

KeyIdle ==
    /\ a0 = ZeroBlock /\ a1 = ZeroBlock /\ a2 = ZeroBlock /\ a3 = ZeroBlock
    /\ result = ZeroBlock
    /\ kpc = "idle"

FmtIdle == v = 0 /\ lit = <<>> /\ fpc = "idle"

\* the processes of Started are about to run main(), the others never run
RunInit(Started, Argvs, Environs, Entropies, Files) ==
    /\ argv \in [Procs -> Argvs]
    /\ \A p \in Procs \ Started : argv[p] = <<>>
    /\ environ \in [Procs -> Environs]
    /\ \A p \in Procs \ Started : environ[p].value = <<"/go">>
    /\ entropy \in [Procs -> Entropies]
    /\ \A p \in Procs \ Started : entropy[p]
    /\ pc = [p \in Procs |-> IF p \in Started THEN "main" ELSE "idle"]
    /\ write = [p \in Procs |-> FALSE]
    /\ rng = [p \in Procs |-> 0]
    /\ seedSource = [p \in Procs |-> "none"]
    /\ numbers = [p \in Procs |-> <<>>]
    /\ path = [p \in Procs |-> ""]
    /\ output = [p \in Procs |-> ClosedFile]
    /\ stdout = [p \in Procs |-> <<>>]
    /\ \E f \in Files :
          fs = [q \in Paths |-> IF q = GoRoot THEN f ELSE NoDir]
    /\ fs0 = fs
    /\ lastWriter = [q \in Paths |-> 0]

RunIdle ==
    RunInit({}, {<<>>}, {[set |-> TRUE, value |-> <<"/go">>]}, {TRUE},
            {NoFile})

Init ==
    /\ RunInit({1}, ArgvValues, EnvironValues, BOOLEAN, InitialFiles)
    /\ KeyIdle
    /\ FmtIdle

(***************************************************************************)
(* main() and generate(), one action per statement.                        *)
(***************************************************************************)
\* store_true with default=True: the flag is always set
MainDefaultTrue(p) ==
    /\ pc[p] = "main"
    /\ write' = [write EXCEPT ![p] = TRUE]
    /\ pc' = [pc EXCEPT ![p] = "seed"]
    /\ UNCHANGED <<argv, environ, entropy, rng, seedSource, numbers, path,
                   output, stdout, fs, fs0, lastWriter, keyVars, fmtVars>>

\* lines 57-63: parse the command line and call generate(args.write)
Main(p) ==
    /\ pc[p] = "main"
    /\ write' = [write EXCEPT ![p] =
                    \E k \in 1..Len(argv[p]) : argv[p][k] \in {"-w", "--write"}]
    /\ pc' = [pc EXCEPT ![p] = "seed"]
    /\ UNCHANGED <<argv, environ, entropy, rng, seedSource, numbers, path,
                   output, stdout, fs, fs0, lastWriter, keyVars, fmtVars>>

\* a seed() that raises when os.urandom is not available
SeedStrict(p) ==
    /\ pc[p] = "seed"
    /\ \/ /\ entropy[p]
          /\ \E s \in UrandomSeeds : rng' = [rng EXCEPT ![p] = s]
          /\ seedSource' = [seedSource EXCEPT ![p] = "urandom"]
          /\ numbers' = [numbers EXCEPT ![p] = <<>>]
          /\ pc' = [pc EXCEPT ![p] = "loop"]
       \/ /\ ~entropy[p]
          /\ pc' = [pc EXCEPT ![p] = "NotImplementedError"]
          /\ UNCHANGED <<rng, seedSource, numbers>>
    /\ UNCHANGED <<argv, environ, entropy, write, path, output, stdout,
                   fs, fs0, lastWriter, keyVars, fmtVars>>

\* line 36: seed(); line 37: numbers = []
Seed(p) ==
    /\ pc[p] = "seed"
    /\ \/ /\ entropy[p]
          /\ \E s \in UrandomSeeds : rng' = [rng EXCEPT ![p] = s]
          /\ seedSource' = [seedSource EXCEPT ![p] = "urandom"]
       \/ /\ ~entropy[p]
          /\ \E s \in TimeSeeds : rng' = [rng EXCEPT ![p] = s]
          /\ seedSource' = [seedSource EXCEPT ![p] = "time"]
    /\ numbers' = [numbers EXCEPT ![p] = <<>>]
    /\ pc' = [pc EXCEPT ![p] = "loop"]
    /\ UNCHANGED <<argv, environ, entropy, write, path, output, stdout,
                   fs, fs0, lastWriter, keyVars, fmtVars>>

\* lines 39-40: one iteration of the loop
Draw(p) ==
    /\ pc[p] = "loop"
    /\ Len(numbers[p]) < NumDraws
    /\ numbers' = [numbers EXCEPT
                      ![p] = Append(@, randint(RandLo, RandHi, rng[p]))]
    /\ rng' = [rng EXCEPT ![p] = NextRandom(@)]
    /\ UNCHANGED <<argv, environ, entropy, pc, write, seedSource, path,
                   output, stdout, fs, fs0, lastWriter, keyVars, fmtVars>>

\* the test of line 42 made before the loop is exhausted: in write mode the
\* path may be resolved before the draws are over
BranchBeforeDraws(p) ==
    /\ pc[p] = "loop"
    /\ write[p] \/ Len(numbers[p]) >= NumDraws
    /\ pc' = [pc EXCEPT ![p] = IF write[p] THEN "path" ELSE "print"]
    /\ UNCHANGED <<argv, environ, entropy, write, rng, seedSource, numbers,
                   path, output, stdout, fs, fs0, lastWriter, keyVars,
                   fmtVars>>

\* the loop is exhausted; line 42: if write
Branch(p) ==
    /\ pc[p] = "loop"
    /\ Len(numbers[p]) >= NumDraws
    /\ pc' = [pc EXCEPT ![p] = IF write[p] THEN "path" ELSE "print"]
    /\ UNCHANGED <<argv, environ, entropy, write, rng, seedSource, numbers,
                   path, output, stdout, fs, fs0, lastWriter, keyVars,
                   fmtVars>>

\* lines 44-45: os.environ["GOPATH"] raises KeyError when GOPATH is not set
ResolvePath(p) ==
    /\ pc[p] = "path"
    /\ \/ /\ ~environ[p].set
          /\ pc' = [pc EXCEPT ![p] = "KeyError"]
          /\ UNCHANGED path
       \/ /\ environ[p].set
          /\ path' = [path EXCEPT
                ![p] = Join(Head(Split(environ[p].value, ":"))) \o PathSuffix]
          /\ pc' = [pc EXCEPT ![p] = "open"]
    /\ UNCHANGED <<argv, environ, entropy, write, rng, seedSource, numbers,
                   output, stdout, fs, fs0, lastWriter, keyVars, fmtVars>>

\* line 47: open(path, "w") raises IOError when the directory is missing
Open(p) ==
    /\ pc[p] = "open"
    /\ \/ /\ ~fs[path[p]].dir
          /\ pc' = [pc EXCEPT ![p] = "IOError"]
          /\ UNCHANGED <<fs, output>>
       \/ /\ fs[path[p]].dir
          /\ fs' = [fs EXCEPT ![path[p]] = OpenTruncate(@)]
          /\ output' = [output EXCEPT
                ![p] = [open |-> TRUE, path |-> path[p], pos |-> 0,
                        buf |-> <<>>]]
          /\ pc' = [pc EXCEPT ![p] = "write"]
    /\ UNCHANGED <<argv, environ, entropy, write, rng, seedSource, numbers,
                   path, stdout, fs0, lastWriter, keyVars, fmtVars>>

\* the buffer of file object f reaches the file in one write
FlushOk(p, f, next) ==
    /\ fs' = [fs EXCEPT ![f.path] =
                 IF f.buf = <<>> THEN @
                 ELSE FileOf(WriteAt(@.data, f.pos, f.buf))]
    /\ lastWriter' = [lastWriter EXCEPT
                         ![f.path] = IF f.buf = <<>> THEN @ ELSE p]
    /\ output' = [output EXCEPT
                     ![p] = [f EXCEPT !.pos = f.pos + Len(f.buf),
                                      !.buf = <<>>,
                                      !.open = (next # "done")]]
    /\ pc' = [pc EXCEPT ![p] = next]

\* the write fails (disk full, I/O error) after n tokens: IOError
FlushFail(p, f) ==
    /\ f.buf # <<>>
    /\ \E n \in PartialLens(f.buf) :
          /\ fs' = [fs EXCEPT ![f.path] =
                       IF n = 0 THEN @
                       ELSE FileOf(WriteAt(@.data, f.pos, SubSeq(f.buf, 1, n)))]
          /\ lastWriter' = [lastWriter EXCEPT
                               ![f.path] = IF n = 0 THEN @ ELSE p]
          /\ output' = [output EXCEPT
                           ![p] = [f EXCEPT !.pos = f.pos + n,
                                            !.buf = SubSeq(f.buf, n + 1,
                                                           Len(f.buf))]]
    /\ pc' = [pc EXCEPT ![p] = "IOError"]

\* line 48: output.write(TEMPLATE % tuple(numbers)); the text is buffered
\* and the buffer may be flushed at once
Write(p) ==
    /\ pc[p] = "write"
    /\ LET r == Format(TEMPLATE, numbers[p])
           f == [output[p] EXCEPT !.buf = @ \o r.text]
       IN  \/ /\ r.err
              /\ pc' = [pc EXCEPT ![p] = "TypeError"]
              /\ UNCHANGED <<output, fs, lastWriter>>
           \/ /\ ~r.err
              /\ output' = [output EXCEPT ![p] = f]
              /\ pc' = [pc EXCEPT ![p] = "close"]
              /\ UNCHANGED <<fs, lastWriter>>
           \/ /\ ~r.err
              /\ FlushOk(p, f, "close")
           \/ /\ ~r.err
              /\ FlushFail(p, f)
    /\ UNCHANGED <<argv, environ, entropy, write, rng, seedSource, numbers,
                   path, stdout, fs0, keyVars, fmtVars>>

\* line 49: output.close() flushes what is still buffered
Close(p) ==
    /\ pc[p] = "close"
    /\ \/ FlushOk(p, output[p], "done")
       \/ FlushFail(p, output[p])
    /\ UNCHANGED <<argv, environ, entropy, write, rng, seedSource, numbers,
                   path, stdout, fs0, keyVars, fmtVars>>

\* line 52: print(TEMPLATE % tuple(numbers)); print ends the text with "\n"
PrintArtifact(p) ==
    /\ pc[p] = "print"
    /\ LET r == Format(TEMPLATE, numbers[p])
       IN  \/ /\ r.err
              /\ pc' = [pc EXCEPT ![p] = "TypeError"]
              /\ UNCHANGED stdout
           \/ /\ ~r.err
              /\ stdout' = [stdout EXCEPT ![p] = @ \o r.text \o <<"\n">>]
              /\ pc' = [pc EXCEPT ![p] = "done"]
    /\ UNCHANGED <<argv, environ, entropy, write, rng, seedSource, numbers,
                   path, output, fs, fs0, lastWriter, keyVars, fmtVars>>

\* one run of the script
Next ==
    \/ Main(1)
    \/ Seed(1)
    \/ Draw(1)
    \/ Branch(1)
    \/ ResolvePath(1)
    \/ Open(1)
    \/ Write(1)
    \/ Close(1)
    \/ PrintArtifact(1)

Spec == Init /\ [][Next]_vars

(***************************************************************************)
(* Two runs of the script in write mode or print mode, started together    *)
(* with the same checkout as first entry of GOPATH.                        *)
(***************************************************************************)
InitConc ==
    /\ RunInit({1, 2}, {<<>>, <<"-w">>},
               {[set |-> TRUE, value |-> g] :
                    g \in {<<"/go">>, <<"/go", ":", "/opt/go">>}},
               {TRUE}, {NoFile, FileOf(OldArtifact \o <<"// local notes\n">>)})
    /\ argv[1] = <<"-w">>
    /\ environ[1].value = <<"/go">>
    /\ KeyIdle
    /\ FmtIdle

NextConc ==
    \E p \in Procs :
        \/ Main(p)
        \/ Seed(p)
        \/ Draw(p)
        \/ Branch(p)
        \/ ResolvePath(p)
        \/ Open(p)
        \/ Write(p)
        \/ Close(p)
        \/ PrintArtifact(p)

SpecConc == InitConc /\ [][NextConc]_vars

(***************************************************************************)
(* passwordKey() of the generated file, applied to sample blocks.          *)
(***************************************************************************)
ByteSamples == <<0, 255, 15, 240, 170, 85, 1, 128, 51, 204, 7, 200>>
SampleBytes == {ByteSamples[k] : k \in 1..Min(NumBases, Len(ByteSamples))}

\* blocks of one repeated byte, and blocks whose bytes all differ
SampleBlocks ==
    {[i \in 0..(KeyLen - 1) |-> b] : b \in SampleBytes}
    \cup {[i \in 0..(KeyLen - 1) |-> (b + (37 * i)) % 256] : b \in SampleBytes}

InitKey ==
    /\ RunIdle
    /\ FmtIdle
    /\ a0 \in SampleBlocks
    /\ a1 \in SampleBlocks
    /\ a2 \in SampleBlocks
    /\ a3 \in SampleBlocks
    /\ result = ZeroBlock
    /\ kpc = "call"

CallPasswordKey ==
    /\ kpc = "call"
    /\ result' = passwordKey(a0, a1, a2, a3)
    /\ kpc' = "returned"
    /\ UNCHANGED <<a0, a1, a2, a3, runVars, fmtVars>>

NextKey == CallPasswordKey

SpecKey == InitKey /\ [][NextKey]_vars

(***************************************************************************)
(* One %02X conversion, applied to every byte.                             *)
(***************************************************************************)
InitFmt ==
    /\ RunIdle
    /\ KeyIdle
    /\ v \in RandLo..RandHi
    /\ lit = <<>>
    /\ fpc = "call"

CallFmt02X ==
    /\ fpc = "call"
    /\ lit' = Fmt02X(v)
    /\ fpc' = "returned"
    /\ UNCHANGED <<v, runVars, keyVars>>

NextFmt == CallFmt02X

SpecFmt == InitFmt /\ [][NextFmt]_vars

(***************************************************************************)
(* Reading a text back, as the Go compiler reads the generated file.       *)
(***************************************************************************)
UpperHexChars == {"0", "1", "2", "3", "4", "5", "6", "7", "8", "9",
                  "A", "B", "C", "D", "E", "F"}

HexValue ==
    "0" :> 0 @@ "1" :> 1 @@ "2" :> 2 @@ "3" :> 3 @@ "4" :> 4 @@ "5" :> 5
    @@ "6" :> 6 @@ "7" :> 7 @@ "8" :> 8 @@ "9" :> 9 @@ "A" :> 10
    @@ "B" :> 11 @@ "C" :> 12 @@ "D" :> 13 @@ "E" :> 14 @@ "F" :> 15

IsHexChar(t) == t \in UpperHexChars

\* positions of the "0x" prefixes of a text
LiteralPositions(text) == {j \in 1..Len(text) : text[j] = "0x"}

\* number of hexadecimal digits that follow position j
DigitCount(text, j) ==
    IF \E n \in 0..3 : j + n + 1 > Len(text) \/ ~IsHexChar(text[j + n + 1])
    THEN CHOOSE n \in 0..3 :
            /\ j + n + 1 > Len(text) \/ ~IsHexChar(text[j + n + 1])
            /\ \A m \in 1..n : IsHexChar(text[j + m])
    ELSE 4

\* value of the literal whose "0x" is at position j
LiteralValue(text, j) ==
    LET n == DigitCount(text, j)
        D(m) == HexValue[text[j + m]]
    IN  IF n = 1 THEN D(1)
        ELSE IF n = 2 THEN (16 * D(1)) + D(2)
        ELSE IF n = 3 THEN (256 * D(1)) + (16 * D(2)) + D(3)
        ELSE -1

RowOpen(b) == "\ta" \o <<"0", "1", "2", "3">>[b + 1] \o " := []byte{"
RowClose == "}\n"

\* positions of the literals of block a<b>, between its braces
BlockPositions(text, b) ==
    LET opens == {j \in 1..Len(text) : text[j] = RowOpen(b)}
    IN  IF Cardinality(opens) # 1 THEN {}
        ELSE LET o == CHOOSE j \in opens : TRUE
                 c == CHOOSE j \in (o + 1)..(Len(text) + 1) :
                         /\ j = Len(text) + 1 \/ text[j] = RowClose
                         /\ \A m \in (o + 1)..(j - 1) : text[m] # RowClose
             IN  {j \in LiteralPositions(text) : o < j /\ j < c}

\* the literals of block a<b> in order, as a function on 0..n-1
Block(text, b) ==
    LET ps == BlockPositions(text, b)
    IN  [i \in 0..(Cardinality(ps) - 1) |->
            LiteralValue(text,
                CHOOSE j \in ps : Cardinality({m \in ps : m < j}) = i)]

\* the text with every literal's digits replaced by the conversion specifier
Skeleton(text) ==
    LET marked == [j \in 1..Len(text) |->
                      IF ~IsHexChar(text[j]) THEN text[j]
                      ELSE IF j > 1 /\ text[j - 1] = "0x" THEN ConvSpec
                      ELSE ""]
    IN  SelectSeq(marked, LAMBDA t : t # "")

IsPrefix(s, t) == Len(s) <= Len(t) /\ SubSeq(t, 1, Len(s)) = s

\* the artifact the run of p renders from its numbers
Artifact(p) == Format(TEMPLATE, numbers[p]).text

\* the text that reached the sink of a finished run of p
Emitted(p) ==
    IF write[p] THEN fs[path[p]].data
    ELSE SubSeq(stdout[p], 1, Len(stdout[p]) - 1)

ConstBlock(b) == [i \in 0..(KeyLen - 1) |-> b]
Bit(x, k) == (x \div (2 ^ k)) % 2

(***************************************************************************)
(* Properties.                                                             *)
(***************************************************************************)

\* C1: once passwordKey has returned, every byte of the result is, bit by
\* bit, ((a0[i] AND a1[i]) XOR a2[i]) OR a3[i]; the result has the indices
\* 0..15 and bytes in 0..255; two indices holding the same four input bytes
\* hold the same result byte; and the three blocks of the examples give
\* sixteen 0x00, sixteen 0xFF and sixteen 0xAA.
C1_CombinationFormula ==
    kpc = "returned" =>
        /\ DOMAIN result = 0..15
        /\ \A i \in 0..15 :
              /\ result[i] \in 0..255
              /\ \A k \in 0..7 :
                    (Bit(result[i], k) = 1) <=>
                        \/ ((Bit(a0[i], k) = 1 /\ Bit(a1[i], k) = 1)
                               # (Bit(a2[i], k) = 1))
                        \/ Bit(a3[i], k) = 1
        /\ \A i, j \in 0..15 :
              (a0[i] = a0[j] /\ a1[i] = a1[j] /\ a2[i] = a2[j] /\ a3[i] = a3[j])
                  => result[i] = result[j]
        /\ (a0 = ConstBlock(0) /\ a1 = ConstBlock(0) /\ a2 = ConstBlock(0)
               /\ a3 = ConstBlock(0)) => result = ConstBlock(0)
        /\ (a0 = ConstBlock(255) /\ a1 = ConstBlock(255) /\ a2 = ConstBlock(0)
               /\ a3 = ConstBlock(0)) => result = ConstBlock(255)
        /\ (a0 = ConstBlock(15) /\ a1 = ConstBlock(240) /\ a2 = ConstBlock(170)
               /\ a3 = ConstBlock(0)) => result = ConstBlock(170)

\* passwordKey has returned on the blocks 0x0F, 0xF0, 0xAA, 0x00
C1_Witness ==
    /\ kpc = "returned"
    /\ a0 = ConstBlock(15) /\ a1 = ConstBlock(240)
    /\ a2 = ConstBlock(170) /\ a3 = ConstBlock(0)
    /\ result = ConstBlock(170)

\* C2: the loop leaves exactly 64 numbers, each in 0..255; the template has
\* exactly 64 specifiers and rendering never raises TypeError; the text that
\* reached the file or standard output of a finished run has exactly 64
\* literals, in exactly four blocks a0..a3 of exactly 16 literals, each of a
\* value in 0..255.
C2_SixtyFourLiterals ==
    /\ ArgIndex(TEMPLATE, Len(TEMPLATE)) = 64
    /\ pc[1] # "TypeError"
    /\ pc[1] \notin {"main", "seed", "loop"} =>
          /\ Len(numbers[1]) = 64
          /\ \A k \in 1..64 : numbers[1][k] \in 0..255
    /\ pc[1] = "loop" => Len(numbers[1]) <= 64
    /\ pc[1] = "done" =>
          LET text == Emitted(1)
          IN  /\ Cardinality(LiteralPositions(text)) = 64
              /\ \A b \in 0..3 :
                    /\ DOMAIN Block(text, b) = 0..15
                    /\ \A i \in 0..15 : Block(text, b)[i] \in 0..255
              /\ \A b, c \in 0..3 :
                    b # c => BlockPositions(text, b) \cap BlockPositions(text, c) = {}

\* a print-mode run has finished and its output holds 64 literals
C2_Witness ==
    /\ pc[1] = "done"
    /\ ~write[1]
    /\ Cardinality(LiteralPositions(Emitted(1))) = 64

\* C3: when a write-mode run has finished, the target file exists and holds
\* exactly the artifact rendered from the numbers of the run.
C3_FileIsArtifact ==
    (pc[1] = "done" /\ write[1]) =>
        /\ fs[path[1]].exists
        /\ fs[path[1]].data = Artifact(1)
        /\ Artifact(1) # <<>>

\* a write-mode run has finished on a file that was longer than an artifact
C3_Witness ==
    /\ pc[1] = "done"
    /\ write[1]
    /\ fs0[path[1]].exists
    /\ Len(fs0[path[1]].data) > Len(Artifact(1))
    /\ fs[path[1]].data = Artifact(1)

\* C4: the flag is set exactly by -w or --write; a run with the flag never
\* prints and a run without it never touches the file system; no run reaches
\* both sinks; a finished run has delivered exactly one artifact: one write
\* of the artifact to the target file (and to no other file), or the
\* artifact and its newline, once, on standard output.
C4_ExactlyOneSink ==
    /\ pc[1] # "main" =>
          (write[1] <=> (\E k \in 1..Len(argv[1]) :
                            argv[1][k] \in {"-w", "--write"}))
    /\ (pc[1] # "main" /\ write[1]) => stdout[1] = <<>>
    /\ ~write[1] => (fs = fs0 /\ ~output[1].open /\ output[1].pos = 0)
    /\ ~(stdout[1] # <<>> /\ fs # fs0)
    /\ (pc[1] = "done" /\ write[1]) =>
          /\ fs[path[1]].data = Artifact(1)
          /\ output[1].pos = Len(Artifact(1))
          /\ \A q \in Paths \ {path[1]} : fs[q] = fs0[q]
    /\ (pc[1] = "done" /\ ~write[1]) =>
          stdout[1] = Artifact(1) \o <<"\n">>

\* a run without arguments has printed while a file existed at the target
C4_Witness ==
    /\ pc[1] = "done"
    /\ argv[1] = <<>>
    /\ stdout[1] # <<>>
    /\ fs0[GoRoot].exists
    /\ fs = fs0

\* C5 as stated: after a run that ended with IOError the target file holds
\* the complete new artifact or is exactly as before the run.
C5_AsStated ==
    (pc[1] = "IOError" /\ write[1]) =>
        \/ fs[path[1]] = fs0[path[1]]
        \/ fs[path[1]].data = Artifact(1)

\* C5: after a run that ended with IOError raised by open, the file system is
\* exactly as before the run; after one raised by write or close, the target
\* file exists and holds a prefix of the new artifact (possibly empty,
\* possibly complete), the content it had before being lost.
C5_PrefixAfterIOError ==
    pc[1] = "IOError" =>
        /\ write[1]
        /\ ~output[1].open => fs = fs0
        /\ output[1].open =>
              /\ fs[path[1]].exists
              /\ IsPrefix(fs[path[1]].data, Artifact(1))
              /\ Len(fs[path[1]].data) = output[1].pos

\* a write failed on a file that held an old artifact and left it empty
C5_Witness ==
    /\ pc[1] = "IOError"
    /\ output[1].open
    /\ fs0[path[1]].data = OldArtifact
    /\ fs[path[1]].data = <<>>

\* C6 as stated: a run that ends with the configuration error has not
\* seeded the generator and has drawn nothing.
C6_AsStated ==
    pc[1] = "KeyError" => (seedSource[1] = "none" /\ Len(numbers[1]) = 0)

\* C6: a run ends with KeyError only in write mode with GOPATH not set, and
\* then the generator was seeded and exactly 64 numbers were drawn, while no
\* file was touched and nothing was printed; a GOPATH that names no checkout
\* makes open fail with IOError, also after the 64 draws.
C6_ConfigErrorAfterDraws ==
    /\ pc[1] = "KeyError" =>
          /\ write[1] /\ ~environ[1].set
          /\ seedSource[1] # "none"
          /\ Len(numbers[1]) = 64
          /\ fs = fs0 /\ stdout[1] = <<>> /\ ~output[1].open
    /\ (pc[1] = "IOError" /\ ~output[1].open) =>
          /\ seedSource[1] # "none"
          /\ Len(numbers[1]) = 64
    /\ (pc[1] \in {"main", "seed"}) => Len(numbers[1]) = 0

\* a write-mode run without GOPATH has ended with KeyError after 64 draws
C6_Witness ==
    /\ pc[1] = "KeyError"
    /\ ~environ[1].set
    /\ Len(numbers[1]) = 64

\* C7 as stated: without system entropy nothing is drawn and nothing is
\* emitted, and a finished run was seeded from system entropy.
C7_AsStated ==
    /\ ~entropy[1] =>
          (Len(numbers[1]) = 0 /\ stdout[1] = <<>> /\ fs = fs0)
    /\ pc[1] = "done" => seedSource[1] = "urandom"

\* C7: seed() never fails and is not retried: past it the generator is
\* seeded from system entropy when it is available and from the clock when
\* it is not, and the run goes on as any other run (its only errors are
\* KeyError and IOError, in write mode); numbers are drawn and artifacts
\* emitted only after seeding.
C7_FallbackToClock ==
    /\ pc[1] \in {"main", "seed"} =>
          (seedSource[1] = "none" /\ numbers[1] = <<>>
              /\ stdout[1] = <<>> /\ fs = fs0)
    /\ pc[1] \notin {"main", "seed"} =>
          seedSource[1] = (IF entropy[1] THEN "urandom" ELSE "time")
    /\ pc[1] \in {"main", "seed", "loop", "path", "open", "write", "close",
                  "print", "done", "KeyError", "IOError"}
    /\ pc[1] \in {"KeyError", "IOError"} => write[1]
    /\ (~entropy[1] /\ pc[1] = "done") =>
          /\ Len(numbers[1]) = 64
          /\ Emitted(1) = Artifact(1)

\* a run without system entropy has finished and emitted its artifact
C7_Witness ==
    /\ ~entropy[1]
    /\ pc[1] = "done"
    /\ seedSource[1] = "time"
    /\ Emitted(1) = Artifact(1)

\* C8: when two write-mode runs on the same path have both finished, the
\* file holds exactly the artifact of the run whose data reached it last.
C8_LastWriterWins ==
    (pc[1] = "done" /\ pc[2] = "done" /\ write[1] /\ write[2]
        /\ path[1] = path[2]) =>
        LET w == lastWriter[path[1]]
        IN  /\ w \in Procs
            /\ fs[path[1]].exists
            /\ fs[path[1]].data = Artifact(w)
            /\ Artifact(w) # <<>>

\* both runs have finished with different artifacts on a file that existed,
\* the data of run 1 having reached the file last
C8_Witness ==
    /\ pc[1] = "done" /\ pc[2] = "done"
    /\ write[1] /\ write[2]
    /\ path[1] = path[2]
    /\ Artifact(1) # Artifact(2)
    /\ lastWriter[path[1]] = 1
    /\ fs0[path[1]].exists
    /\ fs[path[1]].data = Artifact(1)

\* C9: a byte is rendered as exactly two upper-case hexadecimal digits,
\* zero padded, whose value is the byte; no other byte has the same
\* rendering; every specifier of the template follows the prefix 0x; and an
\* artifact made of this byte has the length, in tokens and in characters,
\* of an artifact made of zeros.
C9_TwoHexDigits ==
    fpc = "returned" =>
        /\ Len(lit) = 2
        /\ lit[1] \in UpperHexChars /\ lit[2] \in UpperHexChars
        /\ (16 * HexValue[lit[1]]) + HexValue[lit[2]] = v
        /\ v < 16 => lit[1] = "0"
        /\ \A u \in 0..255 : Fmt02X(u) = lit => u = v
        /\ \A j \in 1..Len(TEMPLATE) :
              TEMPLATE[j] = ConvSpec => (j > 1 /\ TEMPLATE[j - 1] = "0x")
        /\ LET art == Format(TEMPLATE, [k \in 1..64 |-> v]).text
               zero == Format(TEMPLATE, [k \in 1..64 |-> 0]).text
           IN  /\ Len(art) = Len(zero)
               /\ TextLen(art) = TextLen(zero)
               /\ Skeleton(art) = TEMPLATE

\* the byte 0x0A has been rendered, with its padding zero
C9_Witness == fpc = "returned" /\ v = 10 /\ lit = <<"0", "A">>

\* C10: the text that reached the sink of a finished run is the template
\* with its specifiers replaced by literals and nothing else; it has 64
\* literals, and the draw of number k is the literal of position k mod 16
\* of block a(k div 16); standard output holds nothing but that text and
\* the newline of print.
C10_OnlyDrawnBytes ==
    pc[1] = "done" =>
        LET text == Emitted(1)
        IN  /\ Skeleton(text) = TEMPLATE
            /\ Cardinality(LiteralPositions(text)) = 64
            /\ \A k \in 0..63 :
                  Block(text, k \div 16)[k % 16] = numbers[1][k + 1]
            /\ ~write[1] => stdout[1] = text \o <<"\n">>
            /\ write[1] => stdout[1] = <<>>

\* a write-mode run has finished with numbers that are not all equal
C10_Witness ==
    /\ pc[1] = "done"
    /\ write[1]
    /\ numbers[1][1] # numbers[1][17]
    /\ Block(Emitted(1), 1)[0] = numbers[1][17]

====
